---- MODULE Spec2Model ----
(***************************************************************************)
(* A model of rusty_snake (src/src/main.rs): the Game struct, the          *)
(* simulation step Game::update, food placement, the leaderboard helpers   *)
(* and the keyboard handler of main.                                       *)
(*                                                                         *)
(* Sequences are 1-based here and 0-based in the source: body[1] is the    *)
(* source's body[0].                                                       *)
(***************************************************************************)
EXTENDS Integers, Sequences, FiniteSets, TLC

(* Grid size and tick divider.  The source has WIDTH = 30, HEIGHT = 20 and *)
(* SNAKE_SPEED = 15 (main.rs:8-10); the model is explored on a scaled-down *)
(* grid (a torus of 8 cells, the fewest on which a stomach can be filled   *)
(* and emptied) and divider.                                               *)
WIDTH == 4
HEIGHT == 2
SNAKE_SPEED == 2

(* Steps are explored while the body has at most MaxLen segments.          *)
MaxLen == 6

MAX_HIGH_SCORES == 5
MAX_NAME_LEN == 10
MIN_STOMACH_LEN == 5
MAX_TAIL == 3
WATER_GROWTH == 5
RUSTY_POINTS == 1
SHINY_POINTS == 2
WATER_POINTS == 5

(* Score of the entries of the full leaderboard file used as a start state *)
BoardScore == 50

Direction == {"Right", "Left", "Up", "Down"}
FoodType == {"RustyScrap", "ShinyMetal", "Water"}
SegmentType == {"Head", "Tail", "EmptyStomach", "FullStomach"}

Grid == (0 .. WIDTH - 1) \X (0 .. HEIGHT - 1)

VARIABLES
    body,          \* snake.body: sequence of [position, segment_type]
    direction,     \* snake.direction
    foods,         \* foods: sequence of [position, food_type]
    score,
    game_over,
    game_started,
    frame_count,   \* frame_count modulo SNAKE_SPEED (its only use in update)
    wrap_around,
    tail_length,
    high_scores,   \* sequence of [name, score]
    entering_name,
    player_name,   \* sequence of characters
    file,          \* the records of high_scores.txt
    food_type,     \* update's local food_type as the latest step left it:
                   \* "None", or the kind found at the new head position
    fault          \* "none", or how the process stopped making progress:
                   \* "food_loop" (generate_food never returns), "panic"

vars == <<body, direction, foods, score, game_over, game_started, frame_count,
          wrap_around, tail_length, high_scores, entering_name, player_name,
          file, food_type, fault>>

Segment(pos, kind) == [position |-> pos, segment_type |-> kind]
Food(pos, kind) == [position |-> pos, food_type |-> kind]
HighScoreEntry(n, s) == [name |-> n, score |-> s]

----------------------------------------------------------------------------
(* Helpers on sequences                                                    *)

(* Rust's % on i32: the remainder has the sign of the dividend.            *)
Rem(a, b) == IF a >= 0 THEN a % b ELSE 0 - ((0 - a) % b)

(* Vec::insert(i, e) with the 1-based index i.                             *)
InsertAt(s, i, e) ==
    [k \in 1 .. Len(s) + 1 |->
        IF k < i THEN s[k] ELSE IF k = i THEN e ELSE s[k - 1]]

(* iter().position(pred) on segment kinds: the first 1-based index, 0 for  *)
(* None.                                                                   *)
FirstSegment(b, kind) ==
    IF \E i \in 1 .. Len(b) : b[i].segment_type = kind
    THEN CHOOSE i \in 1 .. Len(b) :
            /\ b[i].segment_type = kind
            /\ \A j \in 1 .. i - 1 : b[j].segment_type # kind
    ELSE 0

----------------------------------------------------------------------------
(* Leaderboard                                                             *)

(* sort_by(|a, b| b.score.cmp(&a.score)): a stable sort, descending.       *)
RECURSIVE SortDesc(_)
SortDesc(s) ==
    IF Len(s) <= 1 THEN s
    ELSE LET rest == SortDesc(Tail(s))
             e == Head(s)
             k == Cardinality({i \in 1 .. Len(rest) : rest[i].score > e.score})
         IN InsertAt(rest, k + 1, e)

Truncate(s, n) == IF Len(s) <= n THEN s ELSE SubSeq(s, 1, n)

(* Variant: the lines are kept as the file holds them.                     *)
LoadHighScores_Raw(f) == f

LoadHighScores(f) == Truncate(SortDesc(f), MAX_HIGH_SCORES)

(* Variant: a score equal to the lowest entry qualifies too.               *)
IsHighScore_OrEqual(hs, sc) ==
    IF Len(hs) < MAX_HIGH_SCORES THEN TRUE ELSE sc >= hs[Len(hs)].score

IsHighScore(hs, sc) ==
    IF Len(hs) < MAX_HIGH_SCORES THEN TRUE ELSE sc > hs[Len(hs)].score

(* Variant: the entry is pushed twice.                                     *)
AddHighScore_Twice(hs, n, sc) ==
    Truncate(SortDesc(Append(Append(hs, HighScoreEntry(n, sc)),
                             HighScoreEntry(n, sc))), MAX_HIGH_SCORES)

AddHighScore(hs, n, sc) ==
    Truncate(SortDesc(Append(hs, HighScoreEntry(n, sc))), MAX_HIGH_SCORES)

----------------------------------------------------------------------------
(* Food placement                                                          *)

(* Variant: the collision test skips the last segment.                     *)
OnBody_ButLast(b, p) == \E i \in 1 .. Len(b) - 1 : b[i].position = p

OnBody(b, p) == \E i \in 1 .. Len(b) : b[i].position = p
OnFood(fs, p) == \E i \in 1 .. Len(fs) : fs[i].position = p

(* Variant: the draw is tested against the segments alone.                *)
GenerateFood_BodyOnly(b, fs) == {p \in Grid : ~OnBody(b, p)}

(* The positions generate_food can return: it redraws until the cell holds *)
(* neither a segment nor a food, so with no such cell it never returns.    *)
GenerateFood(b, fs) == {p \in Grid : ~OnBody(b, p) /\ ~OnFood(fs, p)}

(* spawn_foods: the three foods are placed one after the other.            *)
SpawnFoods(b) ==
    {<<Food(p1, "RustyScrap"), Food(p2, "ShinyMetal"), Food(p3, "Water")>> :
        <<p1, p2, p3>> \in
            {t \in Grid \X Grid \X Grid :
                /\ t[1] \in GenerateFood(b, <<>>)
                /\ t[2] \in GenerateFood(b, <<Food(t[1], "RustyScrap")>>)
                /\ t[3] \in GenerateFood(b, <<Food(t[1], "RustyScrap"),
                                              Food(t[2], "ShinyMetal")>>)}}

(* foods.iter().position(|food| food.position == p): 0 for None.           *)
FoodIndex(fs, p) ==
    IF OnFood(fs, p)
    THEN CHOOSE i \in 1 .. Len(fs) :
            /\ fs[i].position = p
            /\ \A j \in 1 .. i - 1 : fs[j].position # p
    ELSE 0

----------------------------------------------------------------------------
(* The simulation step                                                     *)

Project(dir, pos) ==
    CASE dir = "Right" -> <<pos[1] + 1, pos[2]>>
      [] dir = "Left"  -> <<pos[1] - 1, pos[2]>>
      [] dir = "Up"    -> <<pos[1], pos[2] - 1>>
      [] dir = "Down"  -> <<pos[1], pos[2] + 1>>

(* Variant: the remainder is taken without first adding the grid size.     *)
Wrap_NoOffset(p) == <<Rem(p[1], WIDTH), Rem(p[2], HEIGHT)>>

Wrap(p) == <<Rem(p[1] + WIDTH, WIDTH), Rem(p[2] + HEIGHT, HEIGHT)>>

(* Variant: the cells one past the right and bottom edges count as inside. *)
OutOfGrid_PastEdge(p) == p[1] < 0 \/ p[1] > WIDTH \/ p[2] < 0 \/ p[2] > HEIGHT

OutOfGrid(p) == p[1] < 0 \/ p[1] >= WIDTH \/ p[2] < 0 \/ p[2] >= HEIGHT

(* "Move segments": every segment takes the position of the one ahead of   *)
(* it, the first takes new_head_pos and is re-asserted as Head.            *)
ShiftBody(b, new_head_pos) ==
    [i \in 1 .. Len(b) |->
        Segment(IF i = 1 THEN new_head_pos ELSE b[i - 1].position,
                IF i = 1 THEN "Head" ELSE b[i].segment_type)]

(* The food effects, on the shifted body.  Each yields the new body, score *)
(* and tail_length, whether the game ended, and whether unwrap() panicked. *)
Outcome(b, sc, tl, over, panic) ==
    [body |-> b, score |-> sc, tail_length |-> tl, over |-> over, panic |-> panic]

(* Variants of EatRustyScrap: the stomach inserted in front of the head;   *)
(* the tail grown once more at the cap; a full stomach inserted; the new   *)
(* Tail placed on the head; the new stomach placed on the last segment.    *)
EatRustyScrap_InsertAtFront(b, sc, tl) ==
    IF tl < MAX_TAIL
    THEN Outcome(Append(b, Segment(b[Len(b)].position, "Tail")),
                 sc + RUSTY_POINTS, tl + 1, FALSE, FALSE)
    ELSE Outcome(InsertAt(b, 1, Segment(b[1].position, "EmptyStomach")),
                 sc + RUSTY_POINTS, tl, FALSE, FALSE)

EatRustyScrap_NoCap(b, sc, tl) ==
    IF tl <= MAX_TAIL
    THEN Outcome(Append(b, Segment(b[Len(b)].position, "Tail")),
                 sc + RUSTY_POINTS, tl + 1, FALSE, FALSE)
    ELSE Outcome(InsertAt(b, 2, Segment(b[1].position, "EmptyStomach")),
                 sc + RUSTY_POINTS, tl, FALSE, FALSE)

EatRustyScrap_FullStomach(b, sc, tl) ==
    IF tl < MAX_TAIL
    THEN Outcome(Append(b, Segment(b[Len(b)].position, "Tail")),
                 sc + RUSTY_POINTS, tl + 1, FALSE, FALSE)
    ELSE Outcome(InsertAt(b, 2, Segment(b[1].position, "FullStomach")),
                 sc + RUSTY_POINTS, tl, FALSE, FALSE)

EatRustyScrap_TailAtHead(b, sc, tl) ==
    IF tl < MAX_TAIL
    THEN Outcome(Append(b, Segment(b[1].position, "Tail")),
                 sc + RUSTY_POINTS, tl + 1, FALSE, FALSE)
    ELSE Outcome(InsertAt(b, 2, Segment(b[1].position, "EmptyStomach")),
                 sc + RUSTY_POINTS, tl, FALSE, FALSE)

EatRustyScrap_StomachAtLast(b, sc, tl) ==
    IF tl < MAX_TAIL
    THEN Outcome(Append(b, Segment(b[Len(b)].position, "Tail")),
                 sc + RUSTY_POINTS, tl + 1, FALSE, FALSE)
    ELSE Outcome(InsertAt(b, 2, Segment(b[Len(b)].position, "EmptyStomach")),
                 sc + RUSTY_POINTS, tl, FALSE, FALSE)

(* Variant: the counter advances by two per Tail segment.                  *)
EatRustyScrap_CountTwice(b, sc, tl) ==
    IF tl < MAX_TAIL
    THEN Outcome(Append(b, Segment(b[Len(b)].position, "Tail")),
                 sc + RUSTY_POINTS, tl + 2, FALSE, FALSE)
    ELSE Outcome(InsertAt(b, 2, Segment(b[1].position, "EmptyStomach")),
                 sc + RUSTY_POINTS, tl, FALSE, FALSE)

EatRustyScrap(b, sc, tl) ==
    IF tl < MAX_TAIL
    THEN Outcome(Append(b, Segment(b[Len(b)].position, "Tail")),
                 sc + RUSTY_POINTS, tl + 1, FALSE, FALSE)
    ELSE Outcome(InsertAt(b, 2, Segment(b[1].position, "EmptyStomach")),
                 sc + RUSTY_POINTS, tl, FALSE, FALSE)

(* Variant: the length test is off by one.                                 *)
EatShinyMetal_LenOffByOne(b, sc, tl) ==
    IF Len(b) <= MIN_STOMACH_LEN THEN Outcome(b, sc, tl, TRUE, FALSE)
    ELSE LET empty_stomach_index == FirstSegment(b, "EmptyStomach") IN
         IF empty_stomach_index # 0
         THEN Outcome([b EXCEPT ![empty_stomach_index].segment_type = "FullStomach"],
                      sc + SHINY_POINTS, tl, FALSE, FALSE)
         ELSE Outcome(b, sc, tl, TRUE, FALSE)

EatShinyMetal(b, sc, tl) ==
    IF Len(b) < MIN_STOMACH_LEN THEN Outcome(b, sc, tl, TRUE, FALSE)
    ELSE LET empty_stomach_index == FirstSegment(b, "EmptyStomach") IN
         IF empty_stomach_index # 0
         THEN Outcome([b EXCEPT ![empty_stomach_index].segment_type = "FullStomach"],
                      sc + SHINY_POINTS, tl, FALSE, FALSE)
         ELSE Outcome(b, sc, tl, TRUE, FALSE)

RECURSIVE InsertTimes(_, _, _, _)
InsertTimes(b, i, e, n) ==
    IF n = 0 THEN b ELSE InsertTimes(InsertAt(b, i, e), i, e, n - 1)

(* Variants of EatWater: Water with nothing stored is rewarded; the new    *)
(* segments go behind the first Tail segment.                              *)
EatWater_Reward(b, sc, tl) ==
    LET full_stomach_index == FirstSegment(b, "FullStomach") IN
    IF full_stomach_index # 0
    THEN LET b1 == [b EXCEPT ![full_stomach_index].segment_type = "EmptyStomach"]
             tail_start_index == FirstSegment(b1, "Tail")
         IN IF tail_start_index = 0
            THEN Outcome(b1, sc + WATER_POINTS, tl, FALSE, TRUE)
            ELSE Outcome(InsertTimes(b1, tail_start_index,
                                     Segment(b1[tail_start_index].position,
                                             "EmptyStomach"),
                                     WATER_GROWTH),
                         sc + WATER_POINTS, tl, FALSE, FALSE)
    ELSE Outcome(b, sc + WATER_POINTS, tl, FALSE, FALSE)

EatWater_AfterTail(b, sc, tl) ==
    LET full_stomach_index == FirstSegment(b, "FullStomach") IN
    IF full_stomach_index # 0
    THEN LET b1 == [b EXCEPT ![full_stomach_index].segment_type = "EmptyStomach"]
             tail_start_index == FirstSegment(b1, "Tail")
         IN IF tail_start_index = 0
            THEN Outcome(b1, sc + WATER_POINTS, tl, FALSE, TRUE)
            ELSE Outcome(InsertTimes(b1, tail_start_index + 1,
                                     Segment(b1[tail_start_index].position,
                                             "EmptyStomach"),
                                     WATER_GROWTH),
                         sc + WATER_POINTS, tl, FALSE, FALSE)
    ELSE Outcome(b, sc, tl, FALSE, FALSE)

EatWater(b, sc, tl) ==
    LET full_stomach_index == FirstSegment(b, "FullStomach") IN
    IF full_stomach_index # 0
    THEN LET b1 == [b EXCEPT ![full_stomach_index].segment_type = "EmptyStomach"]
             tail_start_index == FirstSegment(b1, "Tail")
         IN IF tail_start_index = 0
            THEN Outcome(b1, sc + WATER_POINTS, tl, FALSE, TRUE)
            ELSE Outcome(InsertTimes(b1, tail_start_index,
                                     Segment(b1[tail_start_index].position,
                                             "EmptyStomach"),
                                     WATER_GROWTH),
                         sc + WATER_POINTS, tl, FALSE, FALSE)
    ELSE Outcome(b, sc, tl, FALSE, FALSE)

FoodEffect(kind, b, sc, tl) ==
    CASE kind = "RustyScrap" -> EatRustyScrap(b, sc, tl)
      [] kind = "ShinyMetal" -> EatShinyMetal(b, sc, tl)
      [] kind = "Water"      -> EatWater(b, sc, tl)

(* game_over = true; check_high_score()                                    *)
EndGame ==
    /\ game_over' = TRUE
    /\ IF IsHighScore(high_scores, score')
       THEN entering_name' = TRUE /\ player_name' = <<>>
       ELSE UNCHANGED <<entering_name, player_name>>

(* The projected head position of a step taken in the current state.       *)
NewHeadPos ==
    LET raw == Project(direction, body[1].position)
    IN IF wrap_around THEN Wrap(raw) ELSE raw

(* The body of update past the frame gate, with fs the foods after the     *)
(* "spawn foods if not already present" block.                             *)
Step(fs) ==
    LET new_head_pos == NewHeadPos
        index == FoodIndex(fs, new_head_pos)
    IN
    IF (~wrap_around /\ OutOfGrid(new_head_pos)) \/ OnBody(body, new_head_pos)
    THEN /\ foods' = fs
         /\ food_type' = "None"
         /\ UNCHANGED <<body, score, tail_length, fault>>
         /\ EndGame
    ELSE IF index = 0
    THEN /\ foods' = fs
         /\ food_type' = "None"
         /\ body' = ShiftBody(body, new_head_pos)
         /\ UNCHANGED <<score, tail_length, game_over, entering_name,
                        player_name, fault>>
    ELSE IF GenerateFood(body, fs) = {}
    THEN /\ foods' = fs
         /\ food_type' = fs[index].food_type
         /\ fault' = "food_loop"
         /\ UNCHANGED <<body, score, tail_length, game_over, entering_name,
                        player_name>>
    ELSE \E p \in GenerateFood(body, fs) :
         LET kind == fs[index].food_type
             out == FoodEffect(kind, ShiftBody(body, new_head_pos), score,
                               tail_length)
         IN /\ foods' = [fs EXCEPT ![index] = Food(p, kind)]
            /\ food_type' = kind
            /\ body' = out.body
            /\ score' = out.score
            /\ tail_length' = out.tail_length
            /\ fault' = IF out.panic THEN "panic" ELSE "none"
            /\ IF out.over
               THEN EndGame
               ELSE UNCHANGED <<game_over, entering_name, player_name>>

(* Game::update                                                            *)
Update ==
    /\ fault = "none"
    /\ Len(body) <= MaxLen
    /\ frame_count' = (frame_count + 1) % SNAKE_SPEED
    /\ UNCHANGED <<direction, game_started, wrap_around, high_scores, file>>
    /\ IF game_over \/ ~game_started \/ frame_count' # 0
       THEN UNCHANGED <<body, foods, score, game_over, tail_length,
                        entering_name, player_name, food_type, fault>>
       ELSE IF foods = <<>>
            THEN IF SpawnFoods(body) = {}
                 THEN /\ fault' = "food_loop"
                      /\ UNCHANGED <<body, foods, score, game_over, tail_length,
                                     entering_name, player_name, food_type>>
                 ELSE \E fs \in SpawnFoods(body) : Step(fs)
            ELSE Step(foods)

----------------------------------------------------------------------------
(* The keyboard handler of main                                            *)

DirectionKeys == Direction
CharKeys == {"A"}
Keys == DirectionKeys \cup {"Return", "Backspace", "F1"} \cup CharKeys

(* key_to_char: Some(c) for the letter keys and Space, None otherwise.     *)
KeyToChar(key) == IF key \in CharKeys THEN <<key>> ELSE <<>>

(* A handler whose guards compare with the pressed direction itself.      *)
Opposite_Same(d) == d

Opposite(d) ==
    CASE d = "Right" -> "Left"
      [] d = "Left"  -> "Right"
      [] d = "Up"    -> "Down"
      [] d = "Down"  -> "Up"

(* Variant: a reset in place that keeps the score.                        *)
NewGame_KeepScore(f) ==
    /\ body' = <<Segment(<<WIDTH \div 2, HEIGHT \div 2>>, "Head")>>
    /\ direction' = "Right"
    /\ foods' = <<>>
    /\ score' = score
    /\ game_over' = FALSE
    /\ game_started' = FALSE
    /\ frame_count' = 0
    /\ wrap_around' = TRUE
    /\ tail_length' = 0
    /\ high_scores' = LoadHighScores(f)
    /\ entering_name' = FALSE
    /\ player_name' = <<>>
    /\ food_type' = "None"

(* Variant: the new session is already started.                           *)
NewGame_Started(f) ==
    /\ body' = <<Segment(<<WIDTH \div 2, HEIGHT \div 2>>, "Head")>>
    /\ direction' = "Right"
    /\ foods' = <<>>
    /\ score' = 0
    /\ game_over' = FALSE
    /\ game_started' = TRUE
    /\ frame_count' = 0
    /\ wrap_around' = TRUE
    /\ tail_length' = 0
    /\ high_scores' = LoadHighScores(f)
    /\ entering_name' = FALSE
    /\ player_name' = <<>>
    /\ food_type' = "None"

(* Game::new() with the leaderboard file f.                                *)
NewGame(f) ==
    /\ body' = <<Segment(<<WIDTH \div 2, HEIGHT \div 2>>, "Head")>>
    /\ direction' = "Right"
    /\ foods' = <<>>
    /\ score' = 0
    /\ game_over' = FALSE
    /\ game_started' = FALSE
    /\ frame_count' = 0
    /\ wrap_around' = TRUE
    /\ tail_length' = 0
    /\ high_scores' = LoadHighScores(f)
    /\ entering_name' = FALSE
    /\ player_name' = <<>>
    /\ food_type' = "None"

KeyPress(key) ==
    /\ fault = "none"
    /\ IF game_over
       THEN IF entering_name
            THEN IF key = "Return"
                 THEN IF player_name # <<>>
                      THEN /\ high_scores' = AddHighScore(high_scores, player_name, score)
                           /\ file' = high_scores'
                           /\ entering_name' = FALSE
                           /\ UNCHANGED <<body, direction, foods, score, game_over,
                                          game_started, frame_count, wrap_around,
                                          tail_length, player_name, food_type, fault>>
                      ELSE UNCHANGED vars
                 ELSE IF key = "Backspace"
                 THEN /\ player_name' = IF player_name = <<>> THEN <<>>
                                        ELSE SubSeq(player_name, 1, Len(player_name) - 1)
                      /\ UNCHANGED <<body, direction, foods, score, game_over,
                                     game_started, frame_count, wrap_around,
                                     tail_length, high_scores, entering_name,
                                     file, food_type, fault>>
                 ELSE /\ player_name' =
                            IF KeyToChar(key) # <<>> /\ Len(player_name) < MAX_NAME_LEN
                            THEN player_name \o KeyToChar(key)
                            ELSE player_name
                      /\ UNCHANGED <<body, direction, foods, score, game_over,
                                     game_started, frame_count, wrap_around,
                                     tail_length, high_scores, entering_name,
                                     file, food_type, fault>>
            ELSE IF key = "Return"
                 THEN NewGame(file) /\ UNCHANGED <<file, fault>>
                 ELSE UNCHANGED vars
       ELSE IF ~game_started
       THEN IF key \in DirectionKeys
            THEN /\ game_started' = TRUE
                 /\ direction' = key
                 /\ IF SpawnFoods(body) = {}
                    THEN fault' = "food_loop" /\ foods' = <<>>
                    ELSE fault' = "none" /\ foods' \in SpawnFoods(body)
                 /\ UNCHANGED <<body, score, game_over, frame_count, wrap_around,
                                tail_length, high_scores, entering_name,
                                player_name, file, food_type>>
            ELSE UNCHANGED vars
       ELSE /\ direction' = IF key \in DirectionKeys /\ direction # Opposite(key)
                            THEN key ELSE direction
            /\ UNCHANGED <<body, foods, score, game_over, game_started,
                           frame_count, wrap_around, tail_length, high_scores,
                           entering_name, player_name, file, food_type, fault>>

----------------------------------------------------------------------------
(* Specification                                                           *)

FullBoard == [i \in 1 .. MAX_HIGH_SCORES |-> HighScoreEntry(<<"A">>, BoardScore)]

(* The state after Game::new(): with no leaderboard file, or with one that *)
(* no reachable score beats.                                               *)
Init ==
    /\ file \in {<<>>, FullBoard}
    /\ body = <<Segment(<<WIDTH \div 2, HEIGHT \div 2>>, "Head")>>
    /\ direction = "Right"
    /\ foods = <<>>
    /\ score = 0
    /\ game_over = FALSE
    /\ game_started = FALSE
    /\ frame_count = 0
    /\ wrap_around = TRUE
    /\ tail_length = 0
    /\ high_scores = LoadHighScores(file)
    /\ entering_name = FALSE
    /\ player_name = <<>>
    /\ food_type = "None"
    /\ fault = "none"

(* The keys of a game session: the arrows, Return and a key without        *)
(* character.                                                              *)
GameKeys == DirectionKeys \cup {"Return", "Backspace", "F1"}

Next ==
    \/ \E key \in GameKeys : KeyPress(key)
    \/ Update

Spec == Init /\ [][Next]_vars

----------------------------------------------------------------------------
(* Specifications of name entry and of the leaderboard: the same handlers  *)
(* with a character key, over short games (the snake stops growing at      *)
(* ShortLen + 1 segments and steers along its row).                        *)

ShortLen == 2
MaxTyped == 1

ShortKeys == {"Right", "Left", "Return", "Backspace", "A"}

ShortUpdate == Len(body) <= ShortLen /\ Update

(* The state after Game::new() with one of the given leaderboard files.    *)
InitWith(files) ==
    /\ file \in files
    /\ body = <<Segment(<<WIDTH \div 2, HEIGHT \div 2>>, "Head")>>
    /\ direction = "Right"
    /\ foods = <<>>
    /\ score = 0
    /\ game_over = FALSE
    /\ game_started = FALSE
    /\ frame_count = 0
    /\ wrap_around = TRUE
    /\ tail_length = 0
    /\ high_scores = LoadHighScores(file)
    /\ entering_name = FALSE
    /\ player_name = <<>>
    /\ food_type = "None"
    /\ fault = "none"

(* Name entry: no file, or a full leaderboard that a score of 1 beats; any *)
(* name can be typed; the player does not play again once a name has been  *)
(* recorded.                                                               *)
NameFiles ==
    {<<>>, [i \in 1 .. MAX_HIGH_SCORES |-> HighScoreEntry(<<"A">>, 0)]}

NameInit == InitWith(NameFiles)

NameKeyPress(key) ==
    /\ key = "Return" /\ game_over /\ ~entering_name => file \in NameFiles
    /\ KeyPress(key)

NameNext ==
    \/ \E key \in ShortKeys : NameKeyPress(key)
    \/ ShortUpdate

NameSpec == NameInit /\ [][NameNext]_vars

(* Leaderboard: files written out of order, one of them with more lines    *)
(* than the leaderboard keeps; any number of sessions, each recorded under *)
(* a name of at most MaxTyped characters.                                  *)
BoardFiles ==
    {<<HighScoreEntry(<<"Z">>, 0), HighScoreEntry(<<"Z">>, 2),
       HighScoreEntry(<<"Z">>, 1)>>,
     <<HighScoreEntry(<<"Z">>, 0), HighScoreEntry(<<"Z">>, 2),
       HighScoreEntry(<<"Z">>, 1), HighScoreEntry(<<"Z">>, 1),
       HighScoreEntry(<<"Z">>, 2), HighScoreEntry(<<"Z">>, 0)>>}

BoardInit == InitWith(BoardFiles)

BoardKeyPress(key) ==
    /\ key \in CharKeys => Len(player_name) < MaxTyped
    /\ KeyPress(key)

BoardNext ==
    \/ \E key \in ShortKeys : BoardKeyPress(key)
    \/ ShortUpdate

BoardSpec == BoardInit /\ [][BoardNext]_vars

(* Qualification: the full game on leaderboards of four and of five lines  *)
(* whose score the snake can miss, match and beat.                         *)
MidScore == 6

ScoreFiles ==
    {[i \in 1 .. MAX_HIGH_SCORES - 1 |-> HighScoreEntry(<<"A">>, MidScore)],
     [i \in 1 .. MAX_HIGH_SCORES |-> HighScoreEntry(<<"A">>, MidScore)]}

ScoreInit == InitWith(ScoreFiles)

ScoreSpec == ScoreInit /\ [][Next]_vars

(* The boundary policy disabled: a Game whose wrap_around field is false.  *)
(* Game::new() sets the field to true and nothing writes it afterwards, so *)
(* this is the session of a build with the literal changed; the player     *)
(* steers and does not restart (Game::new() would enable the policy).      *)
NoWrapInit ==
    /\ file \in {<<>>, FullBoard}
    /\ body = <<Segment(<<WIDTH \div 2, HEIGHT \div 2>>, "Head")>>
    /\ direction = "Right"
    /\ foods = <<>>
    /\ score = 0
    /\ game_over = FALSE
    /\ game_started = FALSE
    /\ frame_count = 0
    /\ wrap_around = FALSE
    /\ tail_length = 0
    /\ high_scores = LoadHighScores(file)
    /\ entering_name = FALSE
    /\ player_name = <<>>
    /\ food_type = "None"
    /\ fault = "none"

NoWrapNext ==
    \/ \E key \in DirectionKeys : KeyPress(key)
    \/ Update

NoWrapSpec == NoWrapInit /\ [][NoWrapNext]_vars

----------------------------------------------------------------------------
(* Vocabulary of the properties                                            *)

Kinds(b) == [i \in 1 .. Len(b) |-> b[i].segment_type]
Positions(b) == [i \in 1 .. Len(b) |-> b[i].position]
TailCount(b) == Cardinality({i \in 1 .. Len(b) : b[i].segment_type = "Tail"})
FullCount(b) == Cardinality({i \in 1 .. Len(b) : b[i].segment_type = "FullStomach"})
EmptyCount(b) == Cardinality({i \in 1 .. Len(b) : b[i].segment_type = "EmptyStomach"})

(* The first index of kind k in a sequence of kinds that holds one.        *)
FirstOf(ks, k) ==
    CHOOSE i \in 1 .. Len(ks) : ks[i] = k /\ \A j \in 1 .. i - 1 : ks[j] # k

(* The neighbour of the head's cell in the current direction, on the torus *)
Neighbour(v, d, n) == IF v + d < 0 THEN n - 1 ELSE IF v + d >= n THEN 0 ELSE v + d
ProjectedCell ==
    LET h == body[1].position
    IN CASE direction = "Right" -> <<Neighbour(h[1], 1, WIDTH), h[2]>>
         [] direction = "Left"  -> <<Neighbour(h[1], -1, WIDTH), h[2]>>
         [] direction = "Up"    -> <<h[1], Neighbour(h[2], -1, HEIGHT)>>
         [] direction = "Down"  -> <<h[1], Neighbour(h[2], 1, HEIGHT)>>

(* A transition in which update ran a simulation step: in a running        *)
(* session only update changes frame_count, and it steps when the counter  *)
(* reaches a multiple of SNAKE_SPEED.                                      *)
StepTaken ==
    /\ ~game_over /\ game_started
    /\ frame_count' # frame_count
    /\ frame_count' = 0

(* A step that found food of the given kind and placed its replacement.    *)
Consumed(kind) == StepTaken /\ food_type' = kind /\ fault' = "none"

(* Return on the game-over screen: Game::new() replaces the session.       *)
Restart == game_over /\ ~game_over'

----------------------------------------------------------------------------
(* Properties of the simulation step                                       *)

(* C1: in every reachable state the body is non-empty, its first segment   *)
(* is the Head and no later segment is a Head.                             *)
C1_HeadFirst ==
    /\ Len(body) >= 1
    /\ body[1].segment_type = "Head"
    /\ \A i \in 2 .. Len(body) : body[i].segment_type # "Head"

(* A stomach segment has just been inserted right behind the head.         *)
C1_Witness ==
    /\ food_type = "RustyScrap"
    /\ Len(body) >= 5
    /\ body[2].segment_type = "EmptyStomach"
    /\ body[2].position = body[1].position

(* C2: the body never holds more than 3 Tail segments; within a session    *)
(* (every transition but the restart, which builds a new Head-only body)   *)
(* the Tail count never decreases, and it increases only by 1, only in a   *)
(* step that consumes RustyScrap while the count is below 3.               *)
C2_TailCapped ==
    [][/\ TailCount(body) <= 3
       /\ TailCount(body') <= 3
       /\ Restart \/ TailCount(body') >= TailCount(body)
       /\ TailCount(body') > TailCount(body) =>
            /\ TailCount(body') = TailCount(body) + 1
            /\ Consumed("RustyScrap")
            /\ TailCount(body) < 3]_vars

(* The third Tail segment has just been appended.                          *)
C2_Witness ==
    /\ food_type = "RustyScrap"
    /\ TailCount(body) = 3
    /\ Len(body) = 4

(* C3: within a session the FullStomach count changes by at most one per   *)
(* transition: +1 only in a step that consumes ShinyMetal, -1 only in a    *)
(* step that consumes Water, and not at all in a step that finds no food   *)
(* or RustyScrap or that ends the game.                                    *)
C3_FullStomachByOne ==
    [][Restart \/
       LET d == FullCount(body') - FullCount(body)
       IN /\ d \in {-1, 0, 1}
          /\ d = 1 => Consumed("ShinyMetal")
          /\ d = -1 => Consumed("Water")
          /\ StepTaken /\ (food_type' \in {"None", "RustyScrap"} \/ game_over') =>
                d = 0]_vars

(* Water has just emptied the only full stomach: the count went up by one  *)
(* and down by one.                                                        *)
C3_Witness ==
    /\ food_type = "Water"
    /\ score >= 11
    /\ FullCount(body) = 0
    /\ EmptyCount(body) >= 6

(* C4: with wrap-around enabled every segment, the head first, is inside   *)
(* the grid, also after a move off the left or top edge.                   *)
C4_HeadInGrid ==
    wrap_around =>
        \A i \in 1 .. Len(body) :
            /\ 0 <= body[i].position[1] /\ body[i].position[1] < WIDTH
            /\ 0 <= body[i].position[2] /\ body[i].position[2] < HEIGHT

(* The head left the grid to the left from x = 0, then to the top from     *)
(* y = 0, and re-entered at the opposite edges.                            *)
C4_Witness ==
    /\ wrap_around
    /\ direction = "Up"
    /\ Len(body) >= 3
    /\ body[3].position = <<0, 0>>
    /\ body[2].position = <<WIDTH - 1, 0>>
    /\ body[1].position = <<WIDTH - 1, HEIGHT - 1>>

(* C5: a step whose projected head position is the position of a body      *)
(* segment ends the game and leaves body, foods and score as they were.    *)
C5_SelfCollisionFrame ==
    [][(/\ StepTaken
        /\ wrap_around
        /\ \E i \in 1 .. Len(body) : body[i].position = ProjectedCell) =>
            /\ game_over'
            /\ body' = body
            /\ foods' = foods
            /\ score' = score]_vars

(* The game ended on a collision with the last segment alone.              *)
C5_Witness ==
    /\ game_over
    /\ food_type = "None"
    /\ Len(body) >= 3
    /\ body[Len(body)].position = ProjectedCell
    /\ \A i \in 1 .. Len(body) - 1 : body[i].position # ProjectedCell

(* C6: a step that consumes Water while no segment is a FullStomach leaves *)
(* the body length, the score and every segment kind as they were and does *)
(* not end the game.                                                       *)
C6_WaterNoOp ==
    [][Consumed("Water") /\ FullCount(body) = 0 =>
            /\ Len(body') = Len(body)
            /\ score' = score
            /\ Kinds(body') = Kinds(body)
            /\ ~game_over']_vars

(* Water was the latest food of a snake with stomach segments that never   *)
(* stored anything (the score is still that of RustyScrap alone).          *)
C6_Witness ==
    /\ food_type = "Water"
    /\ ~game_over
    /\ fault = "none"
    /\ Len(body) >= 5
    /\ score = Len(body) - 1
    /\ FullCount(body) = 0

(* The composition of a snake that grew from RustyScrap alone.             *)
RustyOnly(b, sc) ==
    LET k == Len(b) - 1
    IN /\ sc = k
       /\ TailCount(b) = (IF k < 3 THEN k ELSE 3)
       /\ EmptyCount(b) = (IF k < 3 THEN 0 ELSE k - 3)
       /\ FullCount(b) = 0

(* C7: a step that consumes RustyScrap adds 1 to the score and 1 to the    *)
(* length: below 3 Tail segments it appends a Tail after the segment that  *)
(* was last, at that segment's position; otherwise it inserts an           *)
(* EmptyStomach right behind the head.  Hence a snake made of k RustyScrap *)
(* (min(k,3) Tail, max(k-3,0) EmptyStomach, length 1+k, score k) is one    *)
(* made of k+1 after the step.                                             *)
C7_RustyGrowth ==
    [][Consumed("RustyScrap") =>
        LET n == Len(body)
        IN /\ score' = score + 1
           /\ Len(body') = n + 1
           /\ IF TailCount(body) < 3
              THEN /\ Kinds(body') = Append(Kinds(body), "Tail")
                   /\ body'[n + 1].position = body'[n].position
              ELSE Kinds(body') =
                        <<"Head", "EmptyStomach">> \o SubSeq(Kinds(body), 2, n)
           /\ RustyOnly(body, score) => RustyOnly(body', score')]_vars

(* Head-only snake after its fourth RustyScrap.                            *)
C7_Witness ==
    /\ food_type = "RustyScrap"
    /\ score = 4
    /\ Kinds(body) = <<"Head", "EmptyStomach", "Tail", "Tail", "Tail">>

(* C8: a step that consumes ShinyMetal ends the game when the body is      *)
(* shorter than 5; from length 5 on it turns the first EmptyStomach into a *)
(* FullStomach for 2 points at unchanged length, and ends the game when    *)
(* there is no EmptyStomach.  Where it ends the game the score and the     *)
(* segment kinds stay as they were.                                        *)
C8_ShinyMetal ==
    [][Consumed("ShinyMetal") =>
        IF Len(body) >= 5 /\ EmptyCount(body) > 0
        THEN /\ ~game_over'
             /\ score' = score + 2
             /\ Len(body') = Len(body)
             /\ Kinds(body') =
                    [Kinds(body) EXCEPT ![FirstOf(Kinds(body), "EmptyStomach")] =
                                            "FullStomach"]
        ELSE /\ game_over'
             /\ score' = score
             /\ Kinds(body') = Kinds(body)]_vars

(* ShinyMetal has just filled the first of two empty stomachs.             *)
C8_Witness ==
    /\ food_type = "ShinyMetal"
    /\ ~game_over
    /\ Kinds(body) = <<"Head", "FullStomach", "EmptyStomach", "Tail", "Tail", "Tail">>

(* C9: a step that consumes Water while a FullStomach exists turns the     *)
(* first FullStomach into an EmptyStomach, adds 5 to the score and inserts *)
(* 5 EmptyStomach segments right before the first Tail segment, at its     *)
(* position; the other segments keep their order and kinds and take the    *)
(* positions of the shift.                                                 *)
C9_WaterGrowth ==
    [][Consumed("Water") /\ FullCount(body) >= 1 =>
        /\ TailCount(body) >= 1
        /\ LET ks == Kinds(body)
               n == Len(body)
               ks1 == [ks EXCEPT ![FirstOf(ks, "FullStomach")] = "EmptyStomach"]
               t == FirstOf(ks, "Tail")
               shifted == [i \in 1 .. n |->
                            IF i = 1 THEN ProjectedCell ELSE body[i - 1].position]
           IN /\ ~game_over'
              /\ score' = score + 5
              /\ Len(body') = n + 5
              /\ Kinds(body') = SubSeq(ks1, 1, t - 1)
                                \o [i \in 1 .. 5 |-> "EmptyStomach"]
                                \o SubSeq(ks1, t, n)
              /\ \A i \in t .. t + 4 : body'[i].position = body'[t + 5].position
              /\ \A i \in 1 .. t - 1 : body'[i].position = shifted[i]
              /\ \A i \in t .. n : body'[i + 5].position = shifted[i]]_vars

(* Water has just emptied the first of two full stomachs.                  *)
C9_Witness ==
    /\ food_type = "Water"
    /\ score = 14
    /\ Kinds(body) = <<"Head", "EmptyStomach", "FullStomach">>
                     \o [i \in 1 .. 5 |-> "EmptyStomach"]
                     \o <<"Tail", "Tail", "Tail">>

(* C10 as claimed: while the session has not terminated no two segments    *)
(* have the same position.                                                 *)
C10_NoDuplicatePositions ==
    ~game_over =>
        \A i, j \in 1 .. Len(body) :
            i # j => body[i].position # body[j].position

(* C10 as amended: two segments have the same position only if every       *)
(* segment between them has it too (the segments that growth stacks on     *)
(* their neighbour); the body never overlaps itself otherwise.             *)
C10_StackedOnly ==
    \A i, j \in 1 .. Len(body) :
        i < j /\ body[i].position = body[j].position =>
            \A k \in i .. j : body[k].position = body[i].position

(* Water has just stacked five segments on the first Tail segment in a     *)
(* running session.                                                        *)
C10_Witness ==
    /\ ~game_over
    /\ food_type = "Water"
    /\ \E t \in 1 .. Len(body) - 5 :
        /\ body[t + 5].segment_type = "Tail"
        /\ \A i \in t .. t + 4 :
            /\ body[i].segment_type = "EmptyStomach"
            /\ body[i].position = body[t + 5].position

----------------------------------------------------------------------------
(* Properties of the session and its inputs                                *)

Running == game_started /\ ~game_over

(* Direction k is the direct opposite of direction d.                      *)
Reversal(d, k) == {d, k} = {"Left", "Right"} \/ {d, k} = {"Up", "Down"}

(* C11: in a running session a directional input opposite to the current  *)
(* direction leaves the direction as it is and any other directional input *)
(* sets the direction to the pressed one; it changes neither body, foods   *)
(* nor score.  A directional input after the game is over changes nothing. *)
C11_DirectionInput ==
    [][\A key \in DirectionKeys : KeyPress(key) =>
        /\ Running =>
            /\ direction' = IF Reversal(direction, key) THEN direction ELSE key
            /\ body' = body
            /\ foods' = foods
            /\ score' = score
        /\ game_over => UNCHANGED vars]_vars

(* The snake's latest step went Right and a key has since turned it Up.    *)
C11_Witness ==
    /\ Running
    /\ Len(body) >= 2
    /\ body[2].position[2] = body[1].position[2]
    /\ body[1].position[1] = (body[2].position[1] + 1) % WIDTH
    /\ direction = "Up"

(* Three foods, one of each kind, on three cells that hold no segment of   *)
(* body b.                                                                 *)
FoodsPlaced(fs, b) ==
    /\ Len(fs) = 3
    /\ \A kind \in FoodType : Cardinality({i \in 1 .. 3 : fs[i].food_type = kind}) = 1
    /\ \A i, j \in 1 .. 3 : i # j => fs[i].position # fs[j].position
    /\ \A i \in 1 .. 3 : ~OnBody(b, fs[i].position)

(* C12: from the start of a session on (until the restart empties the     *)
(* session) the foods are one of each kind on pairwise distinct cells that *)
(* hold no segment.  A step that consumes a food replaces it by one of the *)
(* same kind, leaves the other two alone, and places the new one neither   *)
(* on the consumed food's cell nor on a cell of the body before the shift. *)
C12_FoodsPlaced ==
    [][/\ game_started => FoodsPlaced(foods, body)
       /\ game_started' => FoodsPlaced(foods', body')
       /\ \A kind \in FoodType : Consumed(kind) =>
            \E i \in 1 .. 3 :
                /\ foods[i] = Food(ProjectedCell, kind)
                /\ foods'[i].food_type = kind
                /\ foods'[i].position # ProjectedCell
                /\ ~OnBody(body, foods'[i].position)
                /\ \A j \in 1 .. 3 : j # i => foods'[j] = foods[j]]_vars

(* A food has just been replaced on a grid whose cells all hold a segment  *)
(* or a food.                                                              *)
C12_Witness ==
    /\ Running
    /\ food_type \in FoodType
    /\ fault = "none"
    /\ Cardinality({body[i].position : i \in 1 .. Len(body)}) + 3 = WIDTH * HEIGHT

(* C13 as claimed: food placement always returns, with a free cell or with *)
(* a reported failure; no reachable call of generate_food finds every cell *)
(* taken and redraws forever.                                              *)
C13_PlacementTerminates == fault # "food_loop"

(* The phase of the session.                                               *)
Phase(over, started) ==
    IF over THEN "GameOver" ELSE IF started THEN "Running" ELSE "NotStarted"

(* C14: the phase changes only from NotStarted to Running, from Running to *)
(* GameOver and from GameOver to NotStarted.  The session starts only on a *)
(* direction key, which becomes the direction and seeds three foods; an    *)
(* update of a session that has not started leaves the phase and the body  *)
(* as they are; the game ends only in a step of update; the session is     *)
(* replaced only on Return while no name is being entered.                 *)
C14_PhaseOrder ==
    [][LET from == Phase(game_over, game_started)
           to == Phase(game_over', game_started')
       IN /\ from # to =>
                <<from, to>> \in {<<"NotStarted", "Running">>,
                                  <<"Running", "GameOver">>,
                                  <<"GameOver", "NotStarted">>}
          /\ from = "NotStarted" /\ to = "Running" =>
                /\ \E key \in Direction : KeyPress(key) /\ direction' = key
                /\ frame_count' = frame_count
                /\ FoodsPlaced(foods', body')
          /\ from = "NotStarted" /\ Update => to = "NotStarted" /\ body' = body
          /\ from = "Running" /\ to = "GameOver" => StepTaken /\ Update
          /\ from = "GameOver" /\ to = "NotStarted" =>
                KeyPress("Return") /\ ~entering_name]_vars

(* A session that was started, last stepped to the Left and has ended.     *)
C14_Witness ==
    /\ Phase(game_over, game_started) = "GameOver"
    /\ direction = "Left"
    /\ FoodsPlaced(foods, body)
    /\ Len(body) >= 2
    /\ body[1].position[2] = body[2].position[2]
    /\ body[2].position[1] = (body[1].position[1] + 1) % WIDTH

(* C15: after the game has ended no update and no key but the restart      *)
(* changes body, foods or score; the restart replaces the session by the   *)
(* one of Game::new(): a Head alone at the grid centre heading Right, no   *)
(* foods, score 0, tail count 0, not started, no name entry, the counter   *)
(* at 0 and the leaderboard as the file holds it.                          *)
C15_GameOverFrozen ==
    [][/\ game_over /\ ~Restart =>
            /\ game_over'
            /\ body' = body
            /\ foods' = foods
            /\ score' = score
            /\ tail_length' = tail_length
       /\ Restart =>
            /\ body' = <<Segment(<<WIDTH \div 2, HEIGHT \div 2>>, "Head")>>
            /\ direction' = "Right"
            /\ foods' = <<>>
            /\ score' = 0
            /\ tail_length' = 0
            /\ Phase(game_over', game_started') = "NotStarted"
            /\ frame_count' = 0
            /\ wrap_around'
            /\ ~entering_name'
            /\ player_name' = <<>>
            /\ high_scores' = LoadHighScores(file)]_vars

(* An update has run since a step ended a session that had scored.         *)
C15_Witness ==
    /\ game_over
    /\ frame_count = 1
    /\ score > 0
    /\ tail_length > 0

(* C16 as claimed: a step that consumes RustyScrap while the body holds 3  *)
(* Tail segments inserts behind the head an EmptyStomach at the position   *)
(* the head had before the step.                                           *)
C16_StomachAtOldHead ==
    [][Consumed("RustyScrap") /\ TailCount(body) = 3 =>
            /\ body'[2].segment_type = "EmptyStomach"
            /\ body'[2].position = body[1].position]_vars

(* The direction of the latest step, read off the body where the step      *)
(* moved the head along its row: the second segment then lies on the cell  *)
(* the head left.  "None" where the body does not tell (a single segment,  *)
(* a segment stacked on the head, a move along a column).                  *)
LastStepDirection ==
    IF Len(body) >= 2 /\ body[2].position[2] = body[1].position[2]
    THEN IF body[1].position[1] = (body[2].position[1] + 1) % WIDTH
         THEN "Right"
         ELSE IF body[2].position[1] = (body[1].position[1] + 1) % WIDTH
         THEN "Left"
         ELSE "None"
    ELSE "None"

(* C17 as claimed: the direction a step uses is never the opposite of the  *)
(* direction the step before it used, whatever keys were pressed between   *)
(* the two; so the head never projects onto the segment right behind it.   *)
C17_NoReversal ==
    [][StepTaken /\ LastStepDirection \in Direction =>
            /\ ~Reversal(LastStepDirection, direction)
            /\ ProjectedCell # body[2].position]_vars

----------------------------------------------------------------------------
(* Properties of name entry and of the leaderboard                         *)

(* Score sc qualifies for leaderboard hs: hs has a free line, or sc is     *)
(* above the lowest score of hs.                                           *)
Qualifies(hs, sc) ==
    \/ Len(hs) < 5
    \/ \E i \in 1 .. Len(hs) : \A j \in 1 .. Len(hs) :
            hs[i].score <= hs[j].score /\ sc > hs[i].score

(* C18: a transition that ends the game starts name entry exactly when the *)
(* score qualifies for the leaderboard; a name is never being entered      *)
(* while the game is not over.                                             *)
C18_EnteringName ==
    [][/\ ~game_over /\ game_over' =>
            /\ entering_name' <=> Qualifies(high_scores, score')
            /\ high_scores' = high_scores
       /\ entering_name => game_over
       /\ entering_name' => game_over']_vars

(* The game ended on a full stomach with no EmptyStomach left, at exactly  *)
(* the lowest score of a full leaderboard: no name entry.                  *)
C18_Witness ==
    /\ game_over
    /\ ~entering_name
    /\ food_type = "ShinyMetal"
    /\ Len(body) >= 5
    /\ Len(high_scores) = 5
    /\ score = high_scores[5].score

(* Sequence s without its i-th element.                                    *)
RemoveAt(s, i) == SubSeq(s, 1, i - 1) \o SubSeq(s, i + 1, Len(s))

(* Return pressed during name entry.                                       *)
Confirm == game_over /\ entering_name /\ KeyPress("Return")

(* C19: the name being entered never has more than 10 characters;  Return  *)
(* on an empty name changes nothing;  Return on a non-empty name ends name *)
(* entry and adds to the leaderboard exactly one entry, the name with the  *)
(* score of the session: without it the leaderboard is the one before, cut *)
(* to four entries if it was full.                                         *)
C19_NameEntry ==
    [][/\ Len(player_name) <= 10
       /\ Len(player_name') <= 10
       /\ Confirm /\ player_name = <<>> => UNCHANGED vars
       /\ Confirm /\ player_name # <<>> =>
            /\ ~entering_name'
            /\ game_over'
            /\ score' = score
            /\ \E i \in 1 .. Len(high_scores') :
                /\ high_scores'[i] = [name |-> player_name, score |-> score]
                /\ RemoveAt(high_scores', i) =
                        SubSeq(high_scores, 1,
                               IF Len(high_scores) < 5 THEN Len(high_scores) ELSE 4)
      ]_vars

(* A name of 10 characters has been recorded on a leaderboard that was     *)
(* full.                                                                   *)
C19_Witness ==
    /\ game_over
    /\ ~entering_name
    /\ Len(player_name) = 10
    /\ Len(high_scores) = 5
    /\ \E i \in 1 .. 5 : high_scores[i] = [name |-> player_name, score |-> score]

(* The number of entries of leaderboard hs equal to e.                     *)
Count(hs, e) == Cardinality({i \in 1 .. Len(hs) : hs[i] = e})

Ranked(hs) ==
    /\ Len(hs) <= 5
    /\ \A i, j \in 1 .. Len(hs) : i < j => hs[i].score >= hs[j].score

(* C20: whatever the file held and however many sessions were recorded,    *)
(* the leaderboard has at most 5 entries in descending order of score, and *)
(* recording a name with a qualifying score leaves the leaderboard with    *)
(* one more entry of that name and score than before.                      *)
C20_Leaderboard ==
    [][/\ Ranked(high_scores)
       /\ Ranked(high_scores')
       /\ Confirm /\ player_name # <<>> /\ Qualifies(high_scores, score) =>
            LET e == [name |-> player_name, score |-> score]
            IN Count(high_scores', e) = Count(high_scores, e) + 1]_vars

(* Sessions have been recorded until the lowest score of the full          *)
(* leaderboard went up to 1, and the latest record is on it.               *)
C20_Witness ==
    /\ game_over
    /\ ~entering_name
    /\ player_name # <<>>
    /\ Len(high_scores) = 5
    /\ high_scores[5] = [name |-> player_name, score |-> 1]
    /\ Count(high_scores, [name |-> player_name, score |-> 1]) >= 2
    /\ file = high_scores

----------------------------------------------------------------------------
(* Properties of the boundary, the cadence and the body pattern            *)

(* The cell next to the head in the current direction, off the grid where  *)
(* the head is on the edge.                                                *)
AheadCell ==
    LET h == body[1].position
    IN CASE direction = "Right" -> <<h[1] + 1, h[2]>>
         [] direction = "Left"  -> <<h[1] - 1, h[2]>>
         [] direction = "Up"    -> <<h[1], h[2] - 1>>
         [] direction = "Down"  -> <<h[1], h[2] + 1>>

(* C21: with wrap-around disabled, a step whose projected head position is *)
(* outside the grid ends the game and leaves body, foods and score as they *)
(* were; a step whose projected position is inside the grid and free of    *)
(* segments moves the head to exactly that position.                       *)
C21_BoundaryExit ==
    [][StepTaken /\ ~wrap_around =>
        IF AheadCell \in Grid
        THEN (\A i \in 1 .. Len(body) : body[i].position # AheadCell)
                /\ fault' # "food_loop"
                => body'[1].position = AheadCell
        ELSE /\ game_over'
             /\ body' = body
             /\ foods' = foods
             /\ score' = score
             /\ tail_length' = tail_length]_vars

(* A snake that had grown ended its game by stepping off the right edge.   *)
C21_Witness ==
    /\ ~wrap_around
    /\ game_over
    /\ food_type = "None"
    /\ direction = "Right"
    /\ body[1].position[1] = WIDTH - 1
    /\ Len(body) >= 2
    /\ score >= 1

(* What a simulation step always leaves behind: a moved head, the end of   *)
(* the game, or a food placement that does not return.                     *)
StepEffect == body' # body \/ game_over' # game_over \/ fault' # fault

(* The gate of update: in a running session an update runs the step        *)
(* exactly when the counter it has just incremented is a multiple of       *)
(* SNAKE_SPEED, and a step moves the head by one cell at most.             *)
StepGate ==
    Running /\ Update =>
        /\ StepEffect <=> frame_count' = 0
        /\ body'[1].position \in {body[1].position, ProjectedCell}

(* C22 as claimed: while the session runs, update runs one step exactly    *)
(* when the frame counter is a multiple of SNAKE_SPEED, and the first step *)
(* of a session comes a full SNAKE_SPEED updates after the key that        *)
(* started it, i.e. the counter is a multiple of SNAKE_SPEED at the start. *)
C22_OneStepPerInterval ==
    [][/\ StepGate
       /\ Phase(game_over, game_started) = "NotStarted"
            /\ Phase(game_over', game_started') = "Running"
            => frame_count = 0]_vars

(* C23: read from the head, the body is one Head, then stomach segments,   *)
(* then at most three Tail segments; stomach segments exist only with all  *)
(* three Tail segments, so the body has 5 or more segments exactly when it *)
(* has a stomach; where a FullStomach exists a Tail exists, and the lookup *)
(* of the first Tail by Water has never failed; tail_length is the number  *)
(* of Tail segments.                                                       *)
C23_BodyPattern ==
    LET n == Len(body)
        t == TailCount(body)
        stomachs == {i \in 1 .. n :
                        body[i].segment_type \in {"EmptyStomach", "FullStomach"}}
    IN /\ body[1].segment_type = "Head"
       /\ t <= 3
       /\ stomachs = 2 .. n - t
       /\ \A i \in n - t + 1 .. n : body[i].segment_type = "Tail"
       /\ stomachs # {} => t = 3
       /\ n >= 5 <=> stomachs # {}
       /\ FullCount(body) >= 1 => t >= 1
       /\ fault # "panic"
       /\ tail_length = t

(* Water has found a FullStomach, looked up the first Tail and grown the   *)
(* body in front of it, with another FullStomach still in the body.        *)
C23_Witness ==
    /\ food_type = "Water"
    /\ fault = "none"
    /\ FullCount(body) >= 1
    /\ EmptyCount(body) >= 6
    /\ TailCount(body) = 3
    /\ body[Len(body) - 3].segment_type = "EmptyStomach"

====
